---- MODULE Spec2Model ----
(***************************************************************************)
(* A model of termbg (src/src/lib.rs): the probes rgb() and latency(),     *)
(* the timed byte reader they share in shape, the decoder of the X11       *)
(* colour payload and the COLORFGBG fallback.                              *)
(*                                                                         *)
(* Text is modelled as a sequence of byte values (every string the model   *)
(* handles is ASCII, plus the byte 0xff that is never valid UTF-8).        *)
(* A Result is a record [tag, err, val]: tag is "Ok", "Err" or "Panic"     *)
(* (the thread unwinds), err names the Error variant, val is the payload   *)
(* as a tuple.                                                             *)
(***************************************************************************)
EXTENDS Integers, Sequences, FiniteSets, TLC

(***************************************************************************)
(* Bytes the code names.                                                   *)
(***************************************************************************)
BEL == 7
ESC == 27
BACKSLASH == 92
COLON == 58
SLASH == 47
SEMICOLON == 59
LOWER_N == 110

(***************************************************************************)
(* The ASCII codes of the characters the inputs are written with, and      *)
(* Bytes(<<"1", "/", "2">>), the byte string of a text.                    *)
(***************************************************************************)
Ascii ==
  [c \in {"BEL", "ESC", "ETX", "+", "-", "/", "0", "1", "2", "3", "5", "6",
          "9", ":", ";", "?", "F", "P", "[", "\\", "]", "a", "b", "f", "g",
          "m", "n", "r", "t", "u", "x", "INVALID"} |->
     CASE c = "BEL" -> 7 [] c = "ESC" -> 27 [] c = "ETX" -> 3
       [] c = "+" -> 43 [] c = "-" -> 45 [] c = "/" -> 47
       [] c = "0" -> 48 [] c = "1" -> 49 [] c = "2" -> 50 [] c = "3" -> 51
       [] c = "5" -> 53 [] c = "6" -> 54 [] c = "9" -> 57
       [] c = ":" -> 58 [] c = ";" -> 59 [] c = "?" -> 63
       [] c = "F" -> 70 [] c = "P" -> 80 [] c = "[" -> 91 [] c = "\\" -> 92
       [] c = "]" -> 93 [] c = "a" -> 97 [] c = "b" -> 98 [] c = "f" -> 102
       [] c = "g" -> 103 [] c = "m" -> 109 [] c = "n" -> 110 [] c = "r" -> 114
       [] c = "t" -> 116 [] c = "u" -> 117 [] c = "x" -> 120
       [] c = "INVALID" -> 255]

Bytes(text) == [i \in 1..Len(text) |-> Ascii[text[i]]]

(***************************************************************************)
(* Results.                                                                *)
(***************************************************************************)
Ok(v) == [tag |-> "Ok", err |-> "None", val |-> v]
Err(e) == [tag |-> "Err", err |-> e, val |-> <<>>]
Panic == [tag |-> "Panic", err |-> "None", val |-> <<>>]
IsOk(res) == res.tag = "Ok"
IsErr(res) == res.tag = "Err"
IsPanic(res) == res.tag = "Panic"
NoResult == [tag |-> "None", err |-> "None", val |-> <<>>]

Pow2(n) == 2 ^ n
U16 == Pow2(16)

(***************************************************************************)
(* str::split: the pieces between the separators; a string with k          *)
(* separators has k + 1 pieces, empty pieces included.                     *)
(***************************************************************************)
RECURSIVE Split(_, _)
Split(s, sep) ==
  IF \E i \in 1..Len(s) : s[i] = sep
  THEN LET i == CHOOSE k \in 1..Len(s) :
                  s[k] = sep /\ \A j \in 1..(k - 1) : s[j] # sep
       IN  <<SubSeq(s, 1, i - 1)>> \o Split(SubSeq(s, i + 1, Len(s)), sep)
  ELSE <<s>>

(***************************************************************************)
(* char::to_digit(radix): the digit's value, or -1.                        *)
(***************************************************************************)
ToDigit(c, radix) ==
  LET v == IF c >= 48 /\ c <= 57 THEN c - 48
           ELSE IF c >= 97 /\ c <= 122 THEN c - 87
           ELSE IF c >= 65 /\ c <= 90 THEN c - 55
           ELSE -1
  IN  IF v >= 0 /\ v < radix THEN v ELSE -1

(***************************************************************************)
(* uN::from_str_radix for an unsigned type with maximum max: -1 for an     *)
(* error (empty, a lone sign, an invalid digit, overflow). A leading '+'   *)
(* is accepted; '-' is an invalid digit for an unsigned type.              *)
(***************************************************************************)
RECURSIVE DigitsValue(_, _, _, _)
DigitsValue(digits, radix, max, acc) ==
  IF Len(digits) = 0 THEN acc
  ELSE LET d == ToDigit(Head(digits), radix)
       IN  IF d < 0 THEN -1
           ELSE IF acc * radix + d > max THEN -1
           ELSE DigitsValue(Tail(digits), radix, max, acc * radix + d)

FromStrRadix(s, radix, max) ==
  IF Len(s) = 0 THEN -1
  ELSE IF Len(s) = 1 /\ s[1] \in {Ascii["+"], Ascii["-"]} THEN -1
  ELSE DigitsValue(IF s[1] = Ascii["+"] THEN Tail(s) ELSE s, radix, max, 0)

(***************************************************************************)
(* decode_hex: parse, then ret << ((4 - len) * 4) with len the byte length *)
(* as u32. With overflow checks (a debug build) 4 - len below zero and a   *)
(* shift of 16 or more panic; without them the subtraction and the         *)
(* product wrap modulo 2^32 and the shift uses the low 4 bits of the       *)
(* amount, which are those of (4 - len) * 4 modulo 16; bits shifted out    *)
(* of the 16 are lost.                                                     *)
(***************************************************************************)
decode_hex_no_shift(s, debug) ==
  LET len == Len(s)
      parsed == FromStrRadix(s, 16, U16 - 1)
  IN  IF parsed < 0 THEN Err("Parse")
      ELSE IF debug /\ (4 - len < 0 \/ (4 - len) * 4 >= 16) THEN Panic
      ELSE Ok(<<parsed>>)

decode_hex(s, debug) ==
  LET len == Len(s)
      parsed == FromStrRadix(s, 16, U16 - 1)
      amount == ((4 - len) * 4) % 16
  IN  IF parsed < 0 THEN Err("Parse")
      ELSE IF debug /\ (4 - len < 0 \/ (4 - len) * 4 >= 16) THEN Panic
      ELSE Ok(<<(parsed * Pow2(amount)) % U16>>)

(***************************************************************************)
(* decode_x11_color: the first three pieces of s split on '/', decoded in  *)
(* the order r, g, b; the first failure is the result.                     *)
(***************************************************************************)
decode_x11_color(s, debug) ==
  LET rgb == Split(s, SLASH)
  IN  IF Len(rgb) < 3 THEN Err("Parse")
      ELSE LET r == decode_hex(rgb[1], debug)
               g == decode_hex(rgb[2], debug)
               b == decode_hex(rgb[3], debug)
           IN  IF ~IsOk(r) THEN r
               ELSE IF ~IsOk(g) THEN g
               ELSE IF ~IsOk(b) THEN b
               ELSE Ok(<<r.val[1], g.val[1], b.val[1]>>)

(***************************************************************************)
(* String::from_utf8_lossy on the bytes the model delivers: ASCII stays,   *)
(* a byte that cannot occur in UTF-8 becomes U+FFFD (three bytes).         *)
(***************************************************************************)
RECURSIVE from_utf8_lossy(_)
from_utf8_lossy(bytes) ==
  IF Len(bytes) = 0 THEN <<>>
  ELSE (IF Head(bytes) < 128 THEN <<Head(bytes)>> ELSE <<239, 191, 189>>)
       \o from_utf8_lossy(Tail(bytes))

(***************************************************************************)
(* from_env_colorfgbg: the rxvt table, indexed by the second ';' field of  *)
(* COLORFGBG parsed as u8. Absent stands for a variable that is not set.   *)
(***************************************************************************)
Absent == <<-1>>

RxvtTable ==
  << <<0, 0, 0>>, <<205, 0, 0>>, <<0, 205, 0>>, <<205, 205, 0>>,
     <<0, 0, 238>>, <<205, 0, 205>>, <<0, 205, 205>>, <<229, 229, 229>>,
     <<127, 127, 127>>, <<255, 0, 0>>, <<0, 255, 0>>, <<255, 255, 0>>,
     <<92, 92, 255>>, <<255, 0, 255>>, <<0, 255, 255>>, <<255, 255, 255>> >>

from_env_colorfgbg_first_field(var) ==
  IF var = Absent THEN Err("Unsupported")
  ELSE LET fgbg == Split(var, SEMICOLON)
       IN  IF Len(fgbg) < 2 THEN Err("Unsupported")
           ELSE LET bg == FromStrRadix(fgbg[1], 10, 255)
                    c == IF bg >= 0 /\ bg <= 15 THEN RxvtTable[bg + 1]
                         ELSE <<0, 0, 0>>
                IN  IF bg < 0 THEN Err("Parse")
                    ELSE Ok(<<c[1] * 256, c[2] * 256, c[3] * 256>>)

from_env_colorfgbg(var) ==
  IF var = Absent THEN Err("Unsupported")
  ELSE LET fgbg == Split(var, SEMICOLON)
       IN  IF Len(fgbg) < 2 THEN Err("Unsupported")
           ELSE LET bg == FromStrRadix(fgbg[2], 10, 255)
                    c == IF bg >= 0 /\ bg <= 15 THEN RxvtTable[bg + 1]
                         ELSE <<0, 0, 0>>
                IN  IF bg < 0 THEN Err("Parse")
                    ELSE Ok(<<c[1] * 256, c[2] * 256, c[3] * 256>>)

(***************************************************************************)
(* theme(), lines 159-168: the luminance is computed in f64. A double is   *)
(* modelled exactly, as a natural number of units of 2^-56 held in         *)
(* NumLimbs limbs of LimbBits bits, least significant first (every value   *)
(* met is a multiple of 2^-56 below 2^17). The weights are the doubles     *)
(* nearest to 0.299, 0.587 and 0.114:                                      *)
(*   0.299 is 5386305154335113 * 2^-54, 0.587 is 2643612981266481 * 2^-52, *)
(*   0.114 is 8214565720323785 * 2^-56.                                    *)
(* Each product and each sum is rounded to 53 significant bits, ties to    *)
(* even, as IEEE 754 arithmetic does; the sum is taken left to right.      *)
(***************************************************************************)
LimbBits == 14
NumLimbs == 6
F64Bits == 53
UnitBits == 56
LimbBase == Pow2(LimbBits)

WeightR == <<1572, 5636, 13369, 4898, 0, 0>>
WeightG == <<784, 11010, 6684, 9617, 0, 0>>
WeightB == <<14025, 16121, 12713, 1867, 0, 0>>

RECURSIVE MulLimbs(_, _, _, _)
MulLimbs(a, k, i, carry) ==
  IF i > NumLimbs THEN <<>>
  ELSE LET v == a[i] * k + carry
       IN  <<v % LimbBase>> \o MulLimbs(a, k, i + 1, v \div LimbBase)

(* a * k for an integer k below 2^16. *)
BigMul(a, k) == MulLimbs(a, k, 1, 0)

RECURSIVE AddLimbs(_, _, _, _)
AddLimbs(a, b, i, carry) ==
  IF i > NumLimbs THEN <<>>
  ELSE LET v == a[i] + b[i] + carry
       IN  <<v % LimbBase>> \o AddLimbs(a, b, i + 1, v \div LimbBase)

BigAdd(a, b) == AddLimbs(a, b, 1, 0)

RECURSIVE CmpLimbs(_, _, _)
CmpLimbs(a, b, i) ==
  IF i = 0 THEN 0
  ELSE IF a[i] > b[i] THEN 1
  ELSE IF a[i] < b[i] THEN -1
  ELSE CmpLimbs(a, b, i - 1)

(* 1, 0 or -1 as a is above, equal to or below b. *)
BigCmp(a, b) == CmpLimbs(a, b, NumLimbs)

BigPow2(k) ==
  [i \in 1..NumLimbs |->
     IF i = (k \div LimbBits) + 1 THEN Pow2(k % LimbBits) ELSE 0]

RECURSIVE SmallBitLen(_)
SmallBitLen(v) == IF v = 0 THEN 0 ELSE 1 + SmallBitLen(v \div 2)

RECURSIVE BitLenFrom(_, _)
BitLenFrom(a, i) ==
  IF i = 0 THEN 0
  ELSE IF a[i] # 0 THEN (i - 1) * LimbBits + SmallBitLen(a[i])
  ELSE BitLenFrom(a, i - 1)

BitLen(a) == BitLenFrom(a, NumLimbs)

(* The double nearest to the exact value a, ties to even. *)
RoundF64(a) ==
  LET len == BitLen(a)
      s == len - F64Bits
      q == s \div LimbBits
      t == s % LimbBits
      rem == [i \in 1..NumLimbs |->
                IF i <= q THEN a[i]
                ELSE IF i = q + 1 THEN a[i] % Pow2(t) ELSE 0]
      floor == [i \in 1..NumLimbs |->
                  IF i <= q THEN 0
                  ELSE IF i = q + 1 THEN a[i] - (a[i] % Pow2(t)) ELSE a[i]]
      odd == (a[q + 1] \div Pow2(t)) % 2 = 1
      half == BigCmp(rem, BigPow2(s - 1))
  IN  IF len <= F64Bits THEN a
      ELSE IF half > 0 \/ (half = 0 /\ odd) THEN BigAdd(floor, BigPow2(s))
      ELSE floor

F64Mul(k, w) == RoundF64(BigMul(w, k))
F64Add(a, b) == RoundF64(BigAdd(a, b))

(* let y = rgb.r as f64 * 0.299 + rgb.g as f64 * 0.587 + rgb.b as f64 * 0.114 *)
theme_y(r, g, b) ==
  F64Add(F64Add(F64Mul(r, WeightR), F64Mul(g, WeightG)), F64Mul(b, WeightB))

(* y > 32768.0; 32768.0 is 2^15. *)
theme_inclusive(rgb) ==
  IF ~IsOk(rgb) THEN rgb
  ELSE LET y == theme_y(rgb.val[1], rgb.val[2], rgb.val[3])
       IN  IF BigCmp(y, BigPow2(15 + UnitBits)) >= 0 THEN Ok(<<"Light">>)
           ELSE Ok(<<"Dark">>)

theme(rgb) ==
  IF ~IsOk(rgb) THEN rgb
  ELSE LET y == theme_y(rgb.val[1], rgb.val[2], rgb.val[3])
       IN  IF BigCmp(y, BigPow2(15 + UnitBits)) > 0 THEN Ok(<<"Light">>)
           ELSE Ok(<<"Dark">>)

(***************************************************************************)
(* terminal(): the family, from the environment. e is a record of what     *)
(* the variables hold: INSIDE_EMACS, TMUX and WT_SESSION set or not, TERM  *)
(* starting with "screen" or not, TERM_PROGRAM equal to "vscode" or not.   *)
(***************************************************************************)
terminal(e, windows) ==
  IF windows
  THEN IF e.vscode THEN "XtermCompatible"
       ELSE IF e.INSIDE_EMACS THEN "Emacs"
       ELSE IF e.WT_SESSION THEN "XtermCompatible"
       ELSE "Windows"
  ELSE IF e.INSIDE_EMACS THEN "Emacs"
       ELSE IF e.TMUX THEN "Tmux"
       ELSE IF e.TERM_screen THEN "Screen"
       ELSE "XtermCompatible"

(***************************************************************************)
(* from_winapi: the colour of the console's background attribute bits      *)
(* (r, g, b, i), each channel times 256.                                   *)
(***************************************************************************)
WinTable ==
  [attr \in (0..1) \X (0..1) \X (0..1) \X (0..1) |->
     CASE attr = <<0, 0, 0, 0>> -> <<0, 0, 0>>
       [] attr = <<1, 0, 0, 0>> -> <<128, 0, 0>>
       [] attr = <<0, 1, 0, 0>> -> <<0, 128, 0>>
       [] attr = <<1, 1, 0, 0>> -> <<128, 128, 0>>
       [] attr = <<0, 0, 1, 0>> -> <<0, 0, 128>>
       [] attr = <<1, 0, 1, 0>> -> <<128, 0, 128>>
       [] attr = <<0, 1, 1, 0>> -> <<0, 128, 128>>
       [] attr = <<1, 1, 1, 0>> -> <<192, 192, 192>>
       [] attr = <<0, 0, 0, 1>> -> <<128, 128, 128>>
       [] attr = <<1, 0, 0, 1>> -> <<255, 0, 0>>
       [] attr = <<0, 1, 0, 1>> -> <<0, 255, 0>>
       [] attr = <<1, 1, 0, 1>> -> <<255, 255, 0>>
       [] attr = <<0, 0, 1, 1>> -> <<0, 0, 255>>
       [] attr = <<1, 0, 1, 1>> -> <<255, 0, 255>>
       [] attr = <<0, 1, 1, 1>> -> <<0, 255, 255>>
       [] attr = <<1, 1, 1, 1>> -> <<255, 255, 255>>]

from_winapi(attr) ==
  LET c == WinTable[attr]
  IN  Ok(<<c[1] * 256, c[2] * 256, c[3] * 256>>)

(***************************************************************************)
(* The queries from_xterm and xterm_latency write to stderr.               *)
(***************************************************************************)
TmuxQuery ==
  Bytes(<<"ESC", "P", "t", "m", "u", "x", ";", "ESC", "ESC", "]", "1", "1",
          ";", "?", "BEL", "ESC", "\\", "ETX">>)
ScreenQuery ==
  Bytes(<<"ESC", "P", "ESC", "]", "1", "1", ";", "?", "BEL", "ESC", "\\",
          "ETX">>)
PlainQuery == Bytes(<<"ESC", "]", "1", "1", ";", "?", "ESC", "\\">>)
LatencyQuery == Bytes(<<"ESC", "[", "5", "n">>)

ColorQuery_plain_always(term) == PlainQuery

ColorQuery(term) ==
  IF term = "Tmux" THEN TmuxQuery
  ELSE IF term = "Screen" THEN ScreenQuery
  ELSE PlainQuery

(***************************************************************************)
(* Bounds of the model.                                                    *)
(***************************************************************************)
MaxTimeout == 2
MaxElapsed == 3
MaxPayload == 6
MaxIoErrs == 1

(***************************************************************************)
(* State.                                                                  *)
(*   windows, debug  the build: target_os = "windows"; debug assertions    *)
(*                   and overflow checks compiled in                       *)
(*   env, tty        the process environment; which of stdin, stdout and   *)
(*                   stderr are terminals                                  *)
(*   rawMode         the terminal's mode                                   *)
(*   pending         bytes the terminal has sent or will send to stdin,    *)
(*                   not yet read                                          *)
(*   eof             stdin is closed: a read with nothing pending fails    *)
(*   written         what the probe wrote to stderr                        *)
(*   pc, fn, timeout, term, buffer, buf, start, readRes, primary,          *)
(*   fallback, ret   the program: its position, the function called, its   *)
(*                   argument, its locals and what it returned             *)
(*   elapsed         time since the probe started, counted up to           *)
(*                   MaxElapsed                                            *)
(*   ioErrs, readFailed   transient read errors injected so far; whether   *)
(*                   a read of this probe completed with an I/O error      *)
(*   did             the terminal operations the probe has performed       *)
(*   calls           the calls the process has made                        *)
(*   stale           how many of the first bytes of pending the terminal   *)
(*                   sent during or after an earlier call, before the call *)
(*                   under way was made                                    *)
(*   staleRead       a read of the call under way delivered such a byte    *)
(*   input, output   the argument and result of a pure function under      *)
(*                   check (DecodeSpec, EnvSpec)                           *)
(***************************************************************************)
VARIABLES windows, debug, env, tty, rawMode, pending, eof, written,
          pc, fn, timeout, term, buffer, buf, start, readRes, primary,
          fallback, ret, elapsed, ioErrs, readFailed, did,
          calls, stale, staleRead,
          input, output

build == <<windows, debug, env, tty>>
device == <<rawMode, pending, eof, written>>
locals == <<buffer, buf, start, readRes, primary, fallback>>
history == <<calls, stale, staleRead>>
pure == <<input, output>>
vars == <<windows, debug, env, tty, rawMode, pending, eof, written,
          pc, fn, timeout, term, buffer, buf, start, readRes, primary,
          fallback, ret, elapsed, ioErrs, readFailed, did,
          calls, stale, staleRead,
          input, output>>

(***************************************************************************)
(* Inputs: environments, COLORFGBG values, terminal replies.               *)
(***************************************************************************)
NoEnv ==
  [INSIDE_EMACS |-> FALSE, TMUX |-> FALSE, TERM_screen |-> FALSE,
   vscode |-> FALSE, WT_SESSION |-> FALSE, COLORFGBG |-> Absent]

ColorFgBgValues ==
  {Absent, Bytes(<<"0", ";", "1", "5">>), Bytes(<<"0", ";", "x">>)}

Envs ==
  {[f EXCEPT !.COLORFGBG = c] :
     f \in {NoEnv,
            [NoEnv EXCEPT !.INSIDE_EMACS = TRUE],
            [NoEnv EXCEPT !.TMUX = TRUE],
            [NoEnv EXCEPT !.TERM_screen = TRUE],
            [NoEnv EXCEPT !.vscode = TRUE],
            [NoEnv EXCEPT !.WT_SESSION = TRUE]},
     c \in ColorFgBgValues}

TtyStates == [in : BOOLEAN, out : BOOLEAN, err : BOOLEAN]

Timeouts == 1..MaxTimeout

ColorHeader == Bytes(<<"ESC", "]", "1", "1", ";", "r", "g", "b", ":">>)

Replies ==
  { <<>>,
    ColorHeader \o Bytes(<<"f", "/", "0", "/", "3", "BEL">>),
    Bytes(<<":", "1", "/", "2", "/", "3", "ESC", "\\">>),
    Bytes(<<":", "1", "/", "2", "/", "3", "ESC", "x">>),
    Bytes(<<":", "1", "/", "2", "BEL", "n">>),
    Bytes(<<"ESC", "[", "0", "n">>) }

(* What the terminal may answer to a query: nothing once stdin is closed. *)
TerminalReplies == IF eof THEN {<<>>} ELSE Replies

Tick(d) == IF elapsed + d > MaxElapsed THEN MaxElapsed ELSE elapsed + d

Return(res) == pc' = "idle" /\ ret' = res

(***************************************************************************)
(* Init: a process that has made no call; the terminal is in cooked mode   *)
(* and has nothing in flight.                                              *)
(***************************************************************************)
NoProbe ==
  /\ rawMode = FALSE /\ pending = <<>> /\ eof = FALSE /\ written = <<>>
  /\ fn = "none" /\ timeout = 1 /\ term = "none"
  /\ buffer = <<>> /\ buf = 0 /\ start = FALSE
  /\ readRes = NoResult /\ primary = NoResult /\ fallback = NoResult
  /\ ret = NoResult
  /\ elapsed = 0 /\ ioErrs = 0 /\ readFailed = FALSE /\ did = {}
  /\ calls = 0 /\ stale = 0 /\ staleRead = FALSE

Init ==
  /\ windows \in BOOLEAN /\ debug \in BOOLEAN
  /\ env \in Envs /\ tty \in TtyStates
  /\ NoProbe /\ pc = "idle"
  /\ input = <<>> /\ output = NoResult

(***************************************************************************)
(* A call, made when no call is under way: the locals of the probe are     *)
(* fresh; the terminal is as the process left it.                          *)
(***************************************************************************)
Enter(f, t) ==
  /\ pc = "idle" /\ fn = "none"
  /\ fn' = f /\ timeout' = t
  /\ term' = terminal(env, windows)
  /\ buffer' = <<>> /\ buf' = 0 /\ start' = FALSE
  /\ readRes' = NoResult /\ fallback' = NoResult
  /\ elapsed' = 0 /\ ioErrs' = 0 /\ readFailed' = FALSE /\ did' = {}
  /\ written' = <<>>
  /\ calls' = calls + 1
  /\ stale' = (IF calls = 0 THEN 0 ELSE Len(pending)) /\ staleRead' = FALSE
  /\ UNCHANGED <<build, rawMode, pending, eof, pure>>

(***************************************************************************)
(* rgb(timeout), up to the choice of the primary probe; called by the      *)
(* program, or by theme(timeout) (line 159).                               *)
(***************************************************************************)
EnterRgb(f) ==
  \E t \in Timeouts :
    /\ Enter(f, t)
    /\ ret' = NoResult
    /\ IF term' = "Emacs"
       THEN primary' = Err("Unsupported") /\ pc' = "rgb_fallback"
       ELSE IF windows /\ term' # "XtermCompatible"
       THEN primary' = NoResult /\ pc' = "winapi"
       ELSE primary' = NoResult /\ pc' = "x_isatty"

CallRgb == EnterRgb("rgb")

CallTheme == EnterRgb("theme")

FromWinapi ==
  /\ pc = "winapi"
  /\ \E attr \in (0..1) \X (0..1) \X (0..1) \X (0..1) :
       primary' = from_winapi(attr)
  /\ pc' = "rgb_fallback"
  /\ UNCHANGED <<build, history, device, fn, timeout, term, buffer, buf, start,
                 readRes, fallback, ret, elapsed, ioErrs, readFailed, did, pure>>

(* The probe leaves from_xterm with res, before any read. *)
X_Leave(res) ==
  /\ primary' = res /\ pc' = "rgb_fallback"
  /\ UNCHANGED <<build, history, pending, eof, fn, timeout, term, buffer, buf, start,
                 readRes, fallback, ret, elapsed, ioErrs, readFailed, pure>>

X_IsTerminal ==
  /\ pc = "x_isatty"
  /\ IF ~tty.in \/ ~tty.out \/ ~tty.err
     THEN X_Leave(Err("Unsupported")) /\ UNCHANGED <<rawMode, written, did>>
     ELSE /\ pc' = "x_enable"
          /\ UNCHANGED <<build, history, device, fn, timeout, term, locals, ret,
                         elapsed, ioErrs, readFailed, did, pure>>

X_EnableRaw ==
  /\ pc = "x_enable"
  /\ \/ /\ rawMode' = TRUE /\ did' = did \cup {"enable_raw_mode"}
        /\ pc' = "x_write"
        /\ UNCHANGED <<build, history, pending, eof, written, fn, timeout, term,
                       locals, ret, elapsed, ioErrs, readFailed, pure>>
     \/ X_Leave(Err("Io")) /\ UNCHANGED <<rawMode, written, did>>

(* write! and flush of the query; the terminal answers what it will. *)
X_WriteQuery ==
  /\ pc = "x_write"
  /\ \/ X_Leave(Err("Io")) /\ UNCHANGED <<rawMode, written, did>>
     \/ /\ written' = Append(written, ColorQuery(term))
        /\ did' = did \cup {"write"}
        /\ \E reply \in TerminalReplies : pending' = pending \o reply
        /\ \/ /\ pc' = "x_runtime"
              /\ UNCHANGED <<build, history, rawMode, eof, fn, timeout, term, locals,
                             ret, elapsed, ioErrs, readFailed, pure>>
           \/ /\ primary' = Err("Io") /\ pc' = "rgb_fallback"
              /\ UNCHANGED <<build, history, rawMode, eof, fn, timeout, term, buffer,
                             buf, start, readRes, fallback, ret, elapsed,
                             ioErrs, readFailed, pure>>

X_NewRuntime ==
  /\ pc = "x_runtime"
  /\ \/ /\ pc' = "x_stdin"
        /\ UNCHANGED <<build, history, device, fn, timeout, term, locals, ret,
                       elapsed, ioErrs, readFailed, did, pure>>
     \/ X_Leave(Err("Io")) /\ UNCHANGED <<rawMode, written, did>>

X_OpenStdin ==
  /\ pc = "x_stdin"
  /\ \/ pc' = "x_read" /\ readRes' = NoResult
     \/ pc' = "x_disable" /\ readRes' = Err("Io")
  /\ UNCHANGED <<build, history, device, fn, timeout, term, buffer, buf, start,
                 primary, fallback, ret, elapsed, ioErrs, readFailed, did, pure>>

(***************************************************************************)
(* time::timeout(timeout, stdin.read_exact(&mut buf)).await: exactly one   *)
(* of three outcomes. A byte in flight arrives within the timeout and is   *)
(* stored in buf; or the timeout elapses first (the terminal is silent or  *)
(* slow) and buf is untouched; or the read completes with an I/O error     *)
(* (end of file once stdin is closed, or a transient error) and buf is     *)
(* untouched.                                                              *)
(***************************************************************************)
ReadDelivers ==
  /\ pending # <<>>
  /\ buf' = Head(pending) /\ pending' = Tail(pending)
  /\ stale' = (IF stale > 0 THEN stale - 1 ELSE 0)
  /\ staleRead' = (staleRead \/ stale > 0)
  /\ \E d \in 0..(timeout - 1) : elapsed' = Tick(d)
  /\ did' = did \cup {"read"}
  /\ UNCHANGED <<ioErrs, readFailed>>

ReadElapses ==
  /\ ~eof
  /\ elapsed' = Tick(timeout)
  /\ did' = did \cup {"read"}
  /\ UNCHANGED <<buf, pending, ioErrs, readFailed, stale, staleRead>>

ReadFails ==
  /\ \/ eof /\ pending = <<>> /\ ioErrs' = ioErrs
     \/ ~eof /\ ioErrs < MaxIoErrs /\ ioErrs' = ioErrs + 1
  /\ readFailed' = TRUE
  /\ did' = did \cup {"read"}
  /\ UNCHANGED <<buf, pending, elapsed, stale, staleRead>>

(***************************************************************************)
(* from_xterm's loop body after the read (lines 207-225), on the byte b    *)
(* that buf holds. A push that the memory cannot hold aborts the process.  *)
(***************************************************************************)
X_Process(b) ==
  IF start /\ b = BEL
  THEN pc' = "x_disable" /\ readRes' = Ok(buffer) /\ UNCHANGED <<buffer, start>>
  ELSE IF start /\ b = ESC
  THEN pc' = "x_read_st" /\ UNCHANGED <<buffer, start, readRes>>
  ELSE IF start /\ Len(buffer) >= MaxPayload
  THEN pc' = "aborted" /\ UNCHANGED <<buffer, start, readRes>>
  ELSE /\ buffer' = IF start THEN Append(buffer, b) ELSE buffer
       /\ start' = (start \/ b = COLON)
       /\ pc' = "x_read"
       /\ UNCHANGED readRes

X_Timeout_returns_at_once == pc' = "x_decode" /\ readRes' = Err("Timeout")

X_Timeout == pc' = "x_disable" /\ readRes' = Err("Timeout")

X_Read ==
  /\ pc = "x_read"
  /\ \/ ReadDelivers /\ X_Process(buf')
     \/ ReadElapses /\ X_Timeout /\ UNCHANGED <<buffer, start>>
     \/ ReadFails /\ X_Process(buf')
  /\ UNCHANGED <<build, calls, rawMode, eof, written, fn, timeout, term,
                 primary, fallback, ret, pure>>

(* The read of the byte after ESC, and debug_assert_eq!(buf[0], 0x5c). *)
X_AssertBackslash(b) ==
  IF debug /\ b # BACKSLASH
  THEN pc' = "panicked" /\ UNCHANGED readRes
  ELSE pc' = "x_disable" /\ readRes' = Ok(buffer)

X_ReadST ==
  /\ pc = "x_read_st"
  /\ \/ ReadDelivers /\ X_AssertBackslash(buf')
     \/ ReadElapses /\ X_Timeout
     \/ ReadFails /\ X_AssertBackslash(buf')
  /\ UNCHANGED <<build, calls, rawMode, eof, written, fn, timeout, term,
                 buffer, start, primary, fallback, ret, pure>>

X_DisableRaw ==
  /\ pc = "x_disable"
  /\ did' = did \cup {"disable_raw_mode"}
  /\ \/ rawMode' = FALSE /\ pc' = "x_decode" /\ UNCHANGED primary
     \/ UNCHANGED rawMode /\ pc' = "rgb_fallback" /\ primary' = Err("Io")
  /\ UNCHANGED <<build, history, pending, eof, written, fn, timeout, term, buffer,
                 buf, start, readRes, fallback, ret, elapsed, ioErrs,
                 readFailed, pure>>

(* let buffer = buffer?; from_utf8_lossy; decode_x11_color(..)?; Ok(Rgb) *)
X_Decode ==
  /\ pc = "x_decode"
  /\ IF ~IsOk(readRes)
     THEN primary' = readRes /\ pc' = "rgb_fallback"
     ELSE LET res == decode_x11_color(from_utf8_lossy(readRes.val), debug)
          IN  IF IsPanic(res)
              THEN pc' = "panicked" /\ UNCHANGED primary
              ELSE primary' = res /\ pc' = "rgb_fallback"
  /\ UNCHANGED <<build, history, device, fn, timeout, term, buffer, buf, start,
                 readRes, fallback, ret, elapsed, ioErrs, readFailed, did, pure>>

(***************************************************************************)
(* rgb(), lines 107-114: the fallback is computed whatever the primary     *)
(* gave, and chosen only when the primary failed and it did not.           *)
(***************************************************************************)
RgbChoose_fallback_first(rgb, fb) == IF IsOk(fb) THEN fb ELSE rgb

RgbChoose(rgb, fb) ==
  IF IsOk(rgb) THEN rgb ELSE IF IsOk(fb) THEN fb ELSE rgb

RgbFallback ==
  /\ pc = "rgb_fallback"
  /\ fallback' = from_env_colorfgbg(env.COLORFGBG)
  /\ ret' = RgbChoose(primary, fallback')
  /\ pc' = IF fn = "theme" THEN "theme_y" ELSE "idle"
  /\ UNCHANGED <<build, history, device, fn, timeout, term, buffer, buf, start,
                 readRes, primary, elapsed, ioErrs, readFailed, did, pure>>

(* theme(), lines 159-168, on what rgb(timeout) returned. *)
ThemeClassify ==
  /\ pc = "theme_y"
  /\ Return(theme(ret))
  /\ UNCHANGED <<build, history, device, fn, timeout, term, locals, elapsed, ioErrs,
                 readFailed, did, pure>>

(***************************************************************************)
(* latency(timeout) and xterm_latency.                                     *)
(***************************************************************************)
CallLatency_probes_emacs ==
  \E t \in Timeouts :
    /\ Enter("latency", t)
    /\ primary' = NoResult
    /\ IF windows /\ term' \notin {"XtermCompatible", "Emacs"}
       THEN Return(Ok(<<0>>))
       ELSE pc' = "l_enable" /\ ret' = NoResult

CallLatency ==
  \E t \in Timeouts :
    /\ Enter("latency", t)
    /\ primary' = NoResult
    /\ IF term' = "Emacs"
       THEN Return(Ok(<<0>>))
       ELSE IF windows /\ term' # "XtermCompatible"
       THEN Return(Ok(<<0>>))
       ELSE pc' = "l_enable" /\ ret' = NoResult

(* xterm_latency returns res before any read. *)
L_Leave(res) ==
  /\ Return(res)
  /\ UNCHANGED <<build, history, pending, eof, fn, timeout, term, locals, elapsed,
                 ioErrs, readFailed, pure>>

L_EnableRaw ==
  /\ pc = "l_enable"
  /\ \/ /\ rawMode' = TRUE /\ did' = did \cup {"enable_raw_mode"}
        /\ pc' = "l_write"
        /\ UNCHANGED <<build, history, pending, eof, written, fn, timeout, term,
                       locals, ret, elapsed, ioErrs, readFailed, pure>>
     \/ L_Leave(Err("Io")) /\ UNCHANGED <<rawMode, written, did>>

(* write!, flush, then start = Instant::now(). *)
L_WriteQuery ==
  /\ pc = "l_write"
  /\ \/ L_Leave(Err("Io")) /\ UNCHANGED <<rawMode, written, did>>
     \/ /\ written' = Append(written, LatencyQuery)
        /\ did' = did \cup {"write"}
        /\ \E reply \in TerminalReplies : pending' = pending \o reply
        /\ \/ pc' = "l_runtime" /\ UNCHANGED ret
           \/ Return(Err("Io"))
        /\ UNCHANGED <<build, history, rawMode, eof, fn, timeout, term, locals,
                       elapsed, ioErrs, readFailed, pure>>

L_NewRuntime ==
  /\ pc = "l_runtime"
  /\ \/ /\ pc' = "l_stdin"
        /\ UNCHANGED <<build, history, device, fn, timeout, term, locals, ret,
                       elapsed, ioErrs, readFailed, did, pure>>
     \/ L_Leave(Err("Io")) /\ UNCHANGED <<rawMode, written, did>>

L_OpenStdin ==
  /\ pc = "l_stdin"
  /\ \/ pc' = "l_read" /\ readRes' = NoResult
     \/ pc' = "l_disable" /\ readRes' = Err("Io")
  /\ UNCHANGED <<build, history, device, fn, timeout, term, buffer, buf, start,
                 primary, fallback, ret, elapsed, ioErrs, readFailed, did, pure>>

(* xterm_latency's loop body after the read (lines 314-317). *)
L_Process_stops_at_esc(b) ==
  IF b = ESC
  THEN pc' = "l_disable" /\ readRes' = Ok(<<>>)
  ELSE pc' = "l_read" /\ UNCHANGED readRes

L_Process(b) ==
  IF b = LOWER_N
  THEN pc' = "l_disable" /\ readRes' = Ok(<<>>)
  ELSE pc' = "l_read" /\ UNCHANGED readRes

L_Read ==
  /\ pc = "l_read"
  /\ \/ ReadDelivers /\ L_Process(buf')
     \/ ReadElapses /\ pc' = "l_disable" /\ readRes' = Err("Timeout")
     \/ ReadFails /\ L_Process(buf')
  /\ UNCHANGED <<build, calls, rawMode, eof, written, fn, timeout, term,
                 buffer, start, primary, fallback, ret, pure>>

(* let end = start.elapsed(); disable_raw_mode()?; let _ = ret?; Ok(end) *)
L_DisableRaw ==
  /\ pc = "l_disable"
  /\ did' = did \cup {"disable_raw_mode"}
  /\ \/ /\ rawMode' = FALSE
        /\ Return(IF IsOk(readRes) THEN Ok(<<elapsed>>) ELSE readRes)
     \/ UNCHANGED rawMode /\ Return(Err("Io"))
  /\ UNCHANGED <<build, history, pending, eof, written, fn, timeout, term, locals,
                 elapsed, ioErrs, readFailed, pure>>

(***************************************************************************)
(* The terminal's side: stdin is closed (hang-up); a key is pressed, which *)
(* sends a byte that is no part of any reply. A key is held back while     *)
(* the payload is at the size the model follows.                           *)
(***************************************************************************)
CloseStdin ==
  /\ ~eof /\ pending = <<>>
  /\ eof' = TRUE
  /\ UNCHANGED <<build, history, rawMode, pending, written, pc, fn, timeout, term,
                 locals, ret, elapsed, ioErrs, readFailed, did, pure>>

KeyPress ==
  /\ ~eof /\ pending = <<>>
  /\ start => Len(buffer) < MaxPayload
  /\ pending' = <<Ascii["x"]>>
  /\ UNCHANGED <<build, history, rawMode, eof, written, pc, fn, timeout, term,
                 locals, ret, elapsed, ioErrs, readFailed, did, pure>>

(* The steps of a probe that is running: the thread takes them by itself. *)
Running ==
  \/ FromWinapi \/ X_IsTerminal \/ X_EnableRaw \/ X_WriteQuery
  \/ X_NewRuntime \/ X_OpenStdin \/ X_Read \/ X_ReadST \/ X_DisableRaw
  \/ X_Decode \/ RgbFallback \/ ThemeClassify
  \/ L_EnableRaw \/ L_WriteQuery \/ L_NewRuntime
  \/ L_OpenStdin \/ L_Read \/ L_DisableRaw

Next == CallRgb \/ CallTheme \/ CallLatency \/ Running \/ CloseStdin \/ KeyPress

Spec == Init /\ [][Next]_vars

(***************************************************************************)
(* The pure functions on their own: the state is an argument and, once     *)
(* the function has been applied, its result. No probe runs.               *)
(***************************************************************************)
MaxDigits == 5
MaxParts == 4
MaxFieldLen == 3
MaxFields == 3

SeqsUpTo(S, n) == UNION {[1..k -> S] : k \in 0..n}

RECURSIVE Join(_, _)
Join(parts, sep) ==
  IF Len(parts) = 0 THEN <<>>
  ELSE IF Len(parts) = 1 THEN parts[1]
  ELSE parts[1] \o <<sep>> \o Join(Tail(parts), sep)

(* Payloads, as the pieces between the slashes. Every triple of hexadecimal
   words of 1 to 4 digits over two digits; and 1 to MaxParts pieces of which
   one is any string of up to MaxDigits characters, the others well formed. *)
HexWords == {w \in SeqsUpTo({Ascii["3"], Ascii["f"]}, 4) : Len(w) >= 1}

AnyWords ==
  SeqsUpTo({Ascii["0"], Ascii["1"], Ascii["+"], Ascii["-"], Ascii["g"]},
           MaxDigits)

FixedWords ==
  <<Bytes(<<"1">>), Bytes(<<"0", "a">>), Bytes(<<"2", "f", "f">>),
    Bytes(<<"3", "3", "3", "3">>)>>

FixedWord(i) == FixedWords[((i - 1) % 4) + 1]

DecodeInputs ==
  \/ input \in HexWords \X HexWords \X HexWords
  \/ \E n \in 1..MaxParts : \E k \in 1..n : \E w \in AnyWords :
       input = [i \in 1..n |-> IF i = k THEN w ELSE FixedWord(i)]

PureInit ==
  /\ windows = FALSE /\ debug \in BOOLEAN
  /\ env = NoEnv /\ tty = [in |-> TRUE, out |-> TRUE, err |-> TRUE]
  /\ NoProbe /\ pc = "pure_in"
  /\ output = NoResult

Apply(res) ==
  /\ pc = "pure_in"
  /\ pc' = "pure_out" /\ output' = res
  /\ UNCHANGED <<build, history, device, fn, timeout, term, locals, ret, elapsed,
                 ioErrs, readFailed, did, input>>

DecodeInit == PureInit /\ DecodeInputs

DecodeX11Color == Apply(decode_x11_color(Join(input, SLASH), debug))

DecodeSpec == DecodeInit /\ [][DecodeX11Color]_vars

(* COLORFGBG, as the fields between the semicolons: not set (the one field
   Absent), or 1 to MaxFields fields of which the second is any string of up
   to MaxFieldLen characters. *)
FieldWords ==
  SeqsUpTo({Ascii["0"], Ascii["1"], Ascii["2"], Ascii["5"], Ascii["6"],
            Ascii["9"], Ascii["x"], Ascii["+"]}, MaxFieldLen)

FirstFields == {<<>>, Bytes(<<"0">>), Bytes(<<"1", "5">>)}

LaterFields == {<<>>, Bytes(<<"9">>)}

EnvInputs ==
  \/ input = <<Absent>>
  \/ \E w \in FieldWords : input = <<w>>
  \/ \E f \in FirstFields : \E w \in FieldWords :
       \E rest \in SeqsUpTo(LaterFields, MaxFields - 2) :
         input = <<f>> \o <<w>> \o rest

EnvInit == PureInit /\ EnvInputs

FromEnvColorFgBg == Apply(from_env_colorfgbg(Join(input, SEMICOLON)))

EnvSpec == EnvInit /\ [][FromEnvColorFgBg]_vars

(***************************************************************************)
(* The read loops on their own: a probe that has enabled raw mode, written *)
(* its query and opened stdin, with any stream of up to MaxStream bytes on *)
(* its way from the terminal (input keeps the whole stream); the probe     *)
(* runs from its first read to its return.                                 *)
(***************************************************************************)
MaxStream == 4

StreamBytes == {COLON, BEL, ESC, BACKSLASH, LOWER_N, Ascii["1"]}

ReadInit ==
  /\ windows = FALSE /\ debug \in BOOLEAN
  /\ env = NoEnv /\ tty = [in |-> TRUE, out |-> TRUE, err |-> TRUE]
  /\ fn \in {"rgb", "latency"} /\ timeout \in Timeouts
  /\ term = terminal(env, windows)
  /\ pc = IF fn = "rgb" THEN "x_read" ELSE "l_read"
  /\ rawMode = TRUE /\ eof = FALSE
  /\ written = <<IF fn = "rgb" THEN ColorQuery(term) ELSE LatencyQuery>>
  /\ did = {"enable_raw_mode", "write"}
  /\ input \in SeqsUpTo(StreamBytes, MaxStream) /\ pending = input
  /\ buffer = <<>> /\ buf = 0 /\ start = FALSE
  /\ readRes = NoResult /\ primary = NoResult /\ fallback = NoResult
  /\ ret = NoResult /\ output = NoResult
  /\ elapsed = 0 /\ ioErrs = 0 /\ readFailed = FALSE
  /\ calls = 1 /\ stale = 0 /\ staleRead = FALSE

ReadNext ==
  \/ X_Read \/ X_ReadST \/ X_DisableRaw \/ X_Decode \/ RgbFallback
  \/ L_Read \/ L_DisableRaw

ReadSpec == ReadInit /\ [][ReadNext]_vars

(***************************************************************************)
(* A process that makes up to MaxCalls calls one after the other, as main  *)
(* does (src/bin/termbg.rs, lines 5-8), on a POSIX build with stdin,       *)
(* stdout and stderr on a terminal and COLORFGBG not set. No key is        *)
(* pressed: every byte on stdin is part of a reply of the terminal.        *)
(***************************************************************************)
MaxCalls == 2

(* The caller goes on to its next call. *)
NextCall ==
  /\ pc = "idle" /\ fn # "none" /\ calls < MaxCalls
  /\ fn' = "none"
  /\ UNCHANGED <<build, history, device, pc, timeout, term, locals, ret,
                 elapsed, ioErrs, readFailed, did, pure>>

SeqInit ==
  /\ windows = FALSE /\ debug \in BOOLEAN
  /\ env = NoEnv /\ tty = [in |-> TRUE, out |-> TRUE, err |-> TRUE]
  /\ NoProbe /\ pc = "idle"
  /\ input = <<>> /\ output = NoResult

SeqNext ==
  \/ CallRgb \/ CallTheme \/ CallLatency \/ NextCall
  \/ X_IsTerminal \/ X_EnableRaw \/ X_WriteQuery \/ X_NewRuntime
  \/ X_OpenStdin \/ X_Read \/ X_ReadST \/ X_DisableRaw \/ X_Decode
  \/ RgbFallback \/ ThemeClassify
  \/ L_EnableRaw \/ L_WriteQuery \/ L_NewRuntime \/ L_OpenStdin \/ L_Read
  \/ L_DisableRaw

SeqSpec == SeqInit /\ [][SeqNext]_vars

(***************************************************************************)
(* theme() on its own: the argument is what rgb(timeout) returned, a       *)
(* colour or an error. The colours are every combination of the channel    *)
(* levels, and colours whose luminance is exactly 32768 with the colours   *)
(* one step away from them in one channel.                                 *)
(***************************************************************************)
Levels == {0, 1, 255, 32767, 32768, 32769, 65280, 65535}

BoundaryColours ==
  {<<32768, 32768, 32768>>, <<0, 43210, 64945>>, <<16950, 40336, 35287>>,
   <<42872, 27344, 34196>>, <<38884, 35148, 4472>>, <<8974, 45798, 28082>>,
   <<26920, 31200, 56180>>, <<43869, 24709, 45149>>}

Errors == {"Io", "Parse", "Unsupported", "Timeout"}

ThemeInputs ==
  \/ \E c \in Levels \X Levels \X Levels : input = Ok(c)
  \/ \E c \in BoundaryColours : \E i \in 1..3 : \E d \in {-1, 0, 1} :
       input = Ok([c EXCEPT ![i] = c[i] + d])
  \/ \E e \in Errors : input = Err(e)

ThemeInit == PureInit /\ ThemeInputs

Theme == Apply(theme(input))

ThemeSpec == ThemeInit /\ [][Theme]_vars

(***************************************************************************)
(* terminal() on its own: every combination of the variables it reads, on  *)
(* both platforms.                                                         *)
(***************************************************************************)
AllEnvs ==
  [INSIDE_EMACS : BOOLEAN, TMUX : BOOLEAN, TERM_screen : BOOLEAN,
   vscode : BOOLEAN, WT_SESSION : BOOLEAN, COLORFGBG : {Absent}]

TerminalInit ==
  /\ windows \in BOOLEAN /\ debug \in BOOLEAN
  /\ env \in AllEnvs /\ tty = [in |-> TRUE, out |-> TRUE, err |-> TRUE]
  /\ NoProbe /\ pc = "pure_in"
  /\ input = <<>> /\ output = NoResult

DetectTerminal ==
  /\ pc = "pure_in"
  /\ pc' = "pure_out" /\ term' = terminal(env, windows)
  /\ UNCHANGED <<build, history, device, fn, timeout, locals, ret, elapsed, ioErrs,
                 readFailed, did, pure>>

TerminalSpec == TerminalInit /\ [][DetectTerminal]_vars

(***************************************************************************)
(* Properties.                                                             *)
(***************************************************************************)
AllTerminals == tty.in /\ tty.out /\ tty.err
Returned == pc = "idle" /\ fn # "none"
InProbe == pc \notin {"idle", "panicked", "aborted", "pure_in", "pure_out"}
(* What the probe itself gave: the primary result of rgb() (called directly
   or by theme()), latency()'s result. *)
ProbeOutcome == IF fn = "latency" THEN ret ELSE primary

(* C1: raw mode is restored on every exit path: a probe that returns after
   enable_raw_mode succeeded has called disable_raw_mode. *)
C1_RawModeRestored ==
  (Returned /\ AllTerminals /\ "enable_raw_mode" \in did)
    => "disable_raw_mode" \in did

(* C2: the timeout is an absolute deadline from the start of the probe: a
   probe that has read stdin and returns later than timeout after its start
   returns Timeout (or the I/O error of a failed restore), never a success
   or a Parse error. *)
C2_AbsoluteDeadline ==
  (Returned /\ AllTerminals /\ "read" \in did /\ elapsed > timeout)
    => (IsErr(ProbeOutcome) /\ ProbeOutcome.err \in {"Timeout", "Io"})

(* The steps that only compute on what was read (decoding, the fallback,
   the classification): each is a total function of the state and always
   moves pc on, so a probe cannot stay in one of them. *)
Computing == pc \in {"x_decode", "rgb_fallback", "theme_y"}

(* C3: every probe terminates: a probe that is under way and is not in a
   computing step (it waits for the terminal or for stdin) is never in a
   state that no step changes any more (the read loop spinning on the same
   state for ever), whatever the input stream does. *)
C3_ProbeTerminates ==
  (InProbe /\ AllTerminals /\ ~Computing) => ENABLED <<Next>>_vars

(* C4: the timed reader fails distinctly on an I/O error: a probe in which a
   read of stdin completed with an I/O error (end of file included) returns
   the Io error, not Timeout and not a success. *)
C4_IoErrorReturned ==
  (Returned /\ AllTerminals /\ readFailed) => ProbeOutcome = Err("Io")

(* C5: the fallback chain of rgb(): a successful primary probe is returned
   whatever COLORFGBG holds; a failed primary with a successful fallback
   returns the fallback's colour; when both fail the primary's error is
   returned; under Emacs the primary is Unsupported; and no colour is
   returned that neither source produced. *)
C5_FallbackChain ==
  (Returned /\ fn = "rgb") =>
    /\ IsOk(primary) => ret = primary
    /\ (~IsOk(primary) /\ IsOk(fallback)) => ret = fallback
    /\ (~IsOk(primary) /\ ~IsOk(fallback)) => (ret = primary /\ IsErr(ret))
    /\ term = "Emacs" => primary = Err("Unsupported")
    /\ env.COLORFGBG = Absent => fallback = Err("Unsupported")
    /\ IsOk(ret) => ret \in {primary, fallback}

(* C5's case: the primary probe timed out and the colour of COLORFGBG=0;15 is
   returned. *)
C5_Witness ==
  /\ Returned /\ fn = "rgb"
  /\ primary = Err("Timeout")
  /\ env.COLORFGBG = Bytes(<<"0", ";", "1", "5">>)
  /\ ret = Ok(<<65280, 65280, 65280>>)

(* Hexadecimal words, read independently of the decoder. *)
HexDigitChars == (48..57) \cup (97..102) \cup (65..70)
IsHexWord(w) == Len(w) \in 1..4 /\ \A i \in 1..Len(w) : w[i] \in HexDigitChars
HexDigit(c) == IF c <= 57 THEN c - 48 ELSE IF c >= 97 THEN c - 87 ELSE c - 55
RECURSIVE HexNumber(_)
HexNumber(w) ==
  IF Len(w) = 0 THEN 0
  ELSE HexNumber(SubSeq(w, 1, Len(w) - 1)) * 16 + HexDigit(w[Len(w)])
LeftShifted(w) == HexNumber(w) * Pow2((4 - Len(w)) * 4)

(* C6: decode_x11_color normalizes every channel to 16 bits by left shift:
   for three hexadecimal components of widths 1 to 4 each channel is the
   component's value shifted left by (4 - width) * 4 bits, channel by channel
   in the order r, g, b, and fits in 16 bits; "3/33/333" gives
   (0x3000, 0x3300, 0x3330) and "3333" gives 0x3333. *)
C6_LeftShiftNormalisation ==
  (pc = "pure_out" /\ Len(input) = 3 /\ \A i \in 1..3 : IsHexWord(input[i]))
    => /\ output = Ok(<<LeftShifted(input[1]), LeftShifted(input[2]),
                        LeftShifted(input[3])>>)
       /\ \A i \in 1..3 : output.val[i] \in 0..65535
       /\ \A i \in 1..3 :
            /\ input[i] = Bytes(<<"3">>) => output.val[i] = 12288
            /\ input[i] = Bytes(<<"3", "3">>) => output.val[i] = 13056
            /\ input[i] = Bytes(<<"3", "3", "3">>) => output.val[i] = 13104
            /\ input[i] = Bytes(<<"3", "3", "3", "3">>) => output.val[i] = 13107

(* C6's case: "3/33/333" has been decoded. *)
C6_Witness ==
  /\ pc = "pure_out"
  /\ input = <<Bytes(<<"3">>), Bytes(<<"3", "3">>), Bytes(<<"3", "3", "3">>)>>
  /\ output = Ok(<<12288, 13056, 13104>>)

(* C7: decode_x11_color accepts a payload only when it has exactly three
   components: a payload of well-formed components that are fewer or more
   than three yields a Parse error. *)
C7_ExactlyThreeComponents ==
  (pc = "pure_out" /\ Len(input) # 3
     /\ \A i \in 1..Len(input) : IsHexWord(input[i]))
    => output = Err("Parse")

(* C8: decode_x11_color rejects every bad component with a Parse error and
   never panics: a payload of three components of which one has no digit,
   holds a character that is no hexadecimal digit (a sign included) or has
   more than 4 digits yields a Parse error. *)
BadComponent(w) ==
  Len(w) = 0 \/ Len(w) > 4 \/ \E i \in 1..Len(w) : w[i] \notin HexDigitChars

C8_BadComponentRejected ==
  (pc = "pure_out" /\ Len(input) = 3 /\ \E i \in 1..3 : BadComponent(input[i]))
    => output = Err("Parse")

(* Decimal words, read independently of the parser. *)
IsDecimal(w) == Len(w) >= 1 /\ \A i \in 1..Len(w) : w[i] \in 48..57
RECURSIVE DecNumber(_)
DecNumber(w) ==
  IF Len(w) = 0 THEN 0
  ELSE DecNumber(SubSeq(w, 1, Len(w) - 1)) * 10 + (w[Len(w)] - 48)
NonNumeric(w) ==
  Len(w) = 0 \/ \E i \in 1..Len(w) : w[i] \notin (48..57) \cup {43, 45}

(* C9: the COLORFGBG fallback never substitutes a default colour: when the
   variable is absent, has no second field, has a non-numeric second field
   or a second field above 15, from_env_colorfgbg returns an error and never
   a colour. *)
C9_NoDefaultColor ==
  (pc = "pure_out"
     /\ \/ input = <<Absent>>
        \/ Len(input) < 2
        \/ NonNumeric(input[2])
        \/ IsDecimal(input[2]) /\ DecNumber(input[2]) > 15)
    => IsErr(output)

(* C10: a probe of a family that queries the terminal touches the terminal
   only when stdin, stdout and stderr are all terminals: when one is not,
   the probe of rgb() and latency() does not enable raw mode, writes no
   query and reads nothing, and gives Unsupported. *)
ProbingFamily ==
  fn \in {"rgb", "latency"} /\ term \in {"XtermCompatible", "Tmux", "Screen"}

C10_RequiresTerminals ==
  (ProbingFamily /\ ~AllTerminals) =>
    /\ did = {}
    /\ Returned => ProbeOutcome = Err("Unsupported")

(* C11: under the family Emacs no probe touches the terminal: raw mode is
   never enabled, no query is written and stdin is never read; the primary
   colour probe is Unsupported, so rgb() returns the COLORFGBG colour when
   that succeeds and Unsupported otherwise; latency() returns a duration of
   exactly zero, for every timeout. *)
C11_EmacsNoProbe ==
  (fn \in {"rgb", "latency"} /\ term = "Emacs") =>
    /\ did = {} /\ ~rawMode /\ written = <<>>
    /\ (Returned /\ fn = "rgb") =>
         /\ primary = Err("Unsupported")
         /\ ret = IF IsOk(fallback) THEN fallback ELSE Err("Unsupported")
    /\ (Returned /\ fn = "latency") => ret = Ok(<<0>>)

(* C11's case: latency() with the longest timeout has returned under Emacs. *)
C11_Witness ==
  /\ Returned /\ fn = "latency" /\ term = "Emacs" /\ timeout = MaxTimeout
  /\ ret = Ok(<<0>>) /\ did = {}

(* C12: family detection has first-match-wins precedence on both platforms:
   INSIDE_EMACS selects Emacs whatever the other variables hold; otherwise
   TMUX selects Tmux; otherwise TERM starting with "screen" selects Screen;
   otherwise, on Windows, TERM_PROGRAM=vscode or WT_SESSION selects
   XtermCompatible; otherwise the platform default. *)
C12_DetectionPrecedence ==
  pc = "pure_out" =>
    term = IF env.INSIDE_EMACS THEN "Emacs"
           ELSE IF env.TMUX THEN "Tmux"
           ELSE IF env.TERM_screen THEN "Screen"
           ELSE IF windows /\ (env.vscode \/ env.WT_SESSION)
                THEN "XtermCompatible"
           ELSE IF windows THEN "Windows"
           ELSE "XtermCompatible"

(* The luminance in exact arithmetic, times 1000. *)
Luminance1000(c) == 299 * c[1] + 587 * c[2] + 114 * c[3]

(* C13: theme() classifies by the luminance Y = 0.299 R + 0.587 G + 0.114 B
   with a strict threshold: Light exactly when Y > 32768, Dark otherwise;
   (0,0,0) is Dark, (65535,65535,65535) is Light, every colour with
   Y = 32768 is Dark, raising a channel never turns Light into Dark; and
   when rgb() fails theme() returns that error and no theme. *)
C13_ThemeByLuminance ==
  pc = "pure_out" =>
    /\ IsOk(input) =>
         output = IF Luminance1000(input.val) > 32768000
                  THEN Ok(<<"Light">>) ELSE Ok(<<"Dark">>)
    /\ input = Ok(<<0, 0, 0>>) => output = Ok(<<"Dark">>)
    /\ input = Ok(<<65535, 65535, 65535>>) => output = Ok(<<"Light">>)
    /\ input = Ok(<<32768, 32768, 32768>>) => output = Ok(<<"Dark">>)
    /\ (IsOk(input) /\ output = Ok(<<"Light">>)) =>
         \A i \in 1..3 : \A v \in Levels \cup {input.val[i] + 1} :
           (v > input.val[i] /\ v <= 65535) =>
             theme(Ok([input.val EXCEPT ![i] = v])) = Ok(<<"Light">>)
    /\ IsErr(input) => output = input

(* C13's case: a colour of luminance exactly 32768 with three different
   channels has been classified, as Dark. *)
C13_Witness ==
  /\ pc = "pure_out"
  /\ input = Ok(<<16950, 40336, 35287>>)
  /\ Luminance1000(input.val) = 32768000
  /\ output = Ok(<<"Dark">>)

(* The bytes the reads of the probe have delivered so far (ReadSpec). *)
Consumed == SubSeq(input, 1, Len(input) - Len(pending))

FirstIndex(s, from, S) ==
  IF \E i \in from..Len(s) : s[i] \in S
  THEN CHOOSE i \in from..Len(s) :
         s[i] \in S /\ \A j \in from..(i - 1) : s[j] \notin S
  ELSE 0

(* C14: the colour-response read policy: the payload handed to the decoder
   is exactly the bytes after the first ':' up to, not including, the first
   BEL or ESC after it; what comes before the first ':' is discarded, later
   ':' are kept; no byte is consumed after a terminating BEL and exactly one
   after a terminating ESC. *)
C14_ColorReadPolicy ==
  (fn = "rgb" /\ pc = "x_disable" /\ IsOk(readRes)) =>
    LET colon == FirstIndex(Consumed, 1, {COLON})
        stop == FirstIndex(Consumed, colon + 1, {BEL, ESC})
    IN  /\ colon > 0 /\ stop > 0
        /\ readRes.val = SubSeq(Consumed, colon + 1, stop - 1)
        /\ Len(Consumed) = IF Consumed[stop] = BEL THEN stop ELSE stop + 1

(* C14 without failing reads, for comparison (see C4). *)
ColorReadPolicyOfDeliveredReads == readFailed \/ C14_ColorReadPolicy

(* C15: the latency read policy: the read succeeds exactly when the byte 'n'
   arrives before a read times out; it stops at the first 'n', whatever
   came before it, and consumes nothing after it; the duration returned is
   the time from the start (just after the flush) to the receipt of that
   'n', as it is: not negative, no floor, no ceiling. *)
C15_LatencyReadPolicy ==
  fn = "latency" =>
    LET n == FirstIndex(Consumed, 1, {LOWER_N})
    IN  /\ pc = "l_read" => n = 0
        /\ (pc \in {"l_disable", "idle"} /\ IsOk(readRes)) =>
             (n > 0 /\ n = Len(Consumed))
        /\ (pc \in {"l_disable", "idle"} /\ ~IsOk(readRes)) =>
             (n = 0 /\ readRes = Err("Timeout"))
        /\ (pc = "idle" /\ IsOk(readRes) /\ ~rawMode) =>
             (ret = Ok(<<elapsed>>) /\ elapsed >= 0)
        /\ (pc = "idle" /\ IsOk(ret)) => IsOk(readRes)

(* C15's case: 'n' arrived as the third byte, one tick after the start,
   with a byte left unread behind it, and that duration was returned. *)
C15_Witness ==
  /\ fn = "latency" /\ pc = "idle"
  /\ input = <<ESC, Ascii["1"], LOWER_N, LOWER_N>>
  /\ pending = <<LOWER_N>>
  /\ elapsed = 1 /\ ret = Ok(<<1>>)

(* C16: the order of a probe that reaches the terminal: raw mode is enabled
   before the query is written; the query is written and flushed before the
   first byte is read; raw mode is disabled after the read has ended and
   before Timeout or Parse is returned; the payload is decoded only after
   raw mode has been disabled. *)
C16_ProbeOrdering ==
  fn # "none" =>
    /\ "write" \in did => "enable_raw_mode" \in did
    /\ "read" \in did => "write" \in did
    /\ pc \in {"x_read", "x_read_st", "l_read"} =>
         ("write" \in did /\ "disable_raw_mode" \notin did /\ rawMode)
    /\ pc = "x_decode" => ("disable_raw_mode" \in did /\ ~rawMode)
    /\ (Returned /\ ProbeOutcome \in {Err("Timeout"), Err("Parse")}) =>
         ("disable_raw_mode" \in did /\ ~rawMode)

(* C16's case: a colour probe went through all four steps and returned the
   Parse error of its payload, in cooked mode. *)
C16_Witness ==
  /\ Returned /\ fn = "rgb" /\ primary = Err("Parse")
  /\ did = {"enable_raw_mode", "write", "read", "disable_raw_mode"}
  /\ ~rawMode

(* C17: a failure to restore the terminal mode never masks the probe's own
   failure: when the read has failed and disable_raw_mode, which is always
   attempted, fails too, the probe returns the read's error; the restore
   error is returned only when there was no earlier error. *)
C17_RestoreFailureNotMasking ==
  (Returned /\ AllTerminals /\ "read" \in did /\ IsErr(readRes)) =>
    ("disable_raw_mode" \in did /\ ProbeOutcome = readRes)

(* C18: the query written is determined by the family alone and a probe
   writes one query: a colour probe writes only the tmux-wrapped sequence
   under Tmux, only the screen-wrapped sequence under Screen and only the
   plain OSC 11 sequence under every other family; a latency probe writes
   only ESC [ 5 n; a Tmux colour probe answered by a BEL-terminated payload
   returns the decoded colour and the plain sequence was never written. *)
C18_QueryByFamily ==
  fn # "none" =>
    /\ Len(written) <= 1
    /\ "read" \in did => Len(written) = 1
    /\ written # <<>> =>
         written[1] =
           IF fn = "latency" THEN Bytes(<<"ESC", "[", "5", "n">>)
           ELSE IF term = "Tmux"
           THEN Bytes(<<"ESC", "P", "t", "m", "u", "x", ";", "ESC", "ESC",
                        "]", "1", "1", ";", "?", "BEL", "ESC", "\\", "ETX">>)
           ELSE IF term = "Screen"
           THEN Bytes(<<"ESC", "P", "ESC", "]", "1", "1", ";", "?", "BEL",
                        "ESC", "\\", "ETX">>)
           ELSE Bytes(<<"ESC", "]", "1", "1", ";", "?", "ESC", "\\">>)
    /\ (Returned /\ fn = "rgb" /\ term = "Tmux" /\ IsOk(primary)) =>
         (written = <<TmuxQuery>> /\ TmuxQuery # PlainQuery)

(* C18's case: under Tmux the reply ESC ] 1 1 ; r g b : f / 0 / 3 BEL gave
   the colour (0xf000, 0, 0x3000) and only the tmux-wrapped query was
   written. *)
C18_Witness ==
  /\ Returned /\ fn = "rgb" /\ term = "Tmux"
  /\ written = <<TmuxQuery>>
  /\ primary = Ok(<<61440, 0, 12288>>) /\ ret = primary

(* C19: for every COLORFGBG whose second field is an integer i in 0..15,
   from_env_colorfgbg returns the i-th entry of the rxvt table with each
   channel multiplied by 256: every channel is a multiple of 256, at most
   65280, within 16 bits; index 15 gives (65280, 65280, 65280); the first
   field and the fields after the second make no difference. *)
C19_RxvtTableScaled ==
  (pc = "pure_out" /\ input # <<Absent>> /\ Len(input) >= 2
     /\ IsDecimal(input[2]) /\ DecNumber(input[2]) \in 0..15) =>
    LET i == DecNumber(input[2])
        c == RxvtTable[i + 1]
    IN  /\ output = Ok(<<c[1] * 256, c[2] * 256, c[3] * 256>>)
        /\ \A k \in 1..3 :
             /\ output.val[k] % 256 = 0
             /\ output.val[k] \in 0..65280
        /\ i = 15 => output = Ok(<<65280, 65280, 65280>>)
        /\ i = 0 => output = Ok(<<0, 0, 0>>)
        /\ output = from_env_colorfgbg(Bytes(<<"9", ";">>) \o input[2])

(* C19's case: COLORFGBG "15;015;9", with a first field that is itself an
   index and a field after the second, gave the entry 15. *)
C19_Witness ==
  /\ pc = "pure_out"
  /\ input = <<Bytes(<<"1", "5">>), Bytes(<<"0", "1", "5">>), Bytes(<<"9">>)>>
  /\ output = Ok(<<65280, 65280, 65280>>)

(* C20: each probe is self-contained across a sequence of calls: the family
   is detected anew at each call, and no read of a probe delivers a byte
   that the terminal sent in reply to an earlier probe (a reply that came
   after the earlier probe had timed out, for one) and is then taken for
   the reply of the later probe: a probe that succeeds has read bytes of
   its own reply only. *)
C20_ProbeSelfContained ==
  fn # "none" =>
    /\ term = terminal(env, windows)
    /\ (Returned /\ IsOk(ProbeOutcome)) => ~staleRead

====
